---- MODULE Spec2Model ----
(***************************************************************************)
(* The Persistence stage of the tick pipeline (src/consumer/src/main.rs): *)
(* one sequential consume loop that reads the norm topic, writes one ILP  *)
(* line per message to the sink over a persistent TCP connection with a   *)
(* single reconnect-and-retry, commits the offset asynchronously and      *)
(* samples the consumer lag behind a 5 second gate.                       *)
(*                                                                         *)
(* The norm topic is modelled as one partition.  The broker, the sink and *)
(* the clock are the environment.  Time is counted in whole seconds and   *)
(* kept as elapsed times: the code only ever reads                        *)
(* last_lag_update.elapsed(), so each timer saturates at LagPeriod.       *)
(*                                                                         *)
(* Two further parts have specifications of their own (EncSpec,           *)
(* FetchSpec): the decoding of one message and its encoding by            *)
(* to_ilp_line, on byte-level integers; and the WebSocket-to-Kafka loop   *)
(* of src/fetcher/src/main.rs.                                            *)
(***************************************************************************)
EXTENDS Integers, Sequences, FiniteSets, TLC

\* ---- bounds of the model ----
MaxLog == 2            \* messages ever appended to the partition
MaxRestarts == 1       \* crashes/restarts of the consumer process
SampleCap == 2         \* lag samples are counted up to "SampleCap or more"
NumConnIds == 2        \* identities of TCP connections, reused cyclically
MaxDigits == 2         \* every ts_ms numeral of up to MaxDigits digits is tried
MaxIdLen == 2          \* every msg_id of up to MaxIdLen characters is tried
MaxFrames == 3         \* frames the feed delivers

\* ---- program constants ----
LagPeriod == 5         \* Duration::from_secs(5), main.rs:138
WatermarkTimeout == 2  \* Duration::from_secs(2), main.rs:140
I64Bytes == 8          \* ts_ms: i64, main.rs:26
I128Bytes == 16        \* `as i128`, main.rs:52
NsPerMs == 1000000     \* 1_000_000i128, main.rs:52

NoOffset == -1         \* "no offset": nothing committed / stored / in flight
NoGauge == -1          \* consumer_lag gauge not yet set

\* What a message of the norm topic carries, as far as the loop distinguishes.
\*   "tick"      text payload that decodes as NormTrade
\*   "malformed" text payload that serde_json rejects
\*   "nontext"   no payload, or payload that is not UTF-8
Kinds == {"tick", "malformed", "nontext"}

VARIABLES
  log,              \* the partition: sequence of message kinds, offset o at index o+1
  committed,        \* broker: durably committed offset of the group, or NoOffset
  commitReq,        \* client: commit request queued and not yet applied by the broker
  stored,           \* client: offset store (last delivered offset + 1), or NoOffset
  sinkUp,           \* sink accepts connections
  pc,               \* position of main()
  position,         \* next offset the stream will deliver
  msg,              \* offset of the message of the current iteration, or NoOffset
  payload,          \* the encoded line of the current iteration (identified by its offset)
  ilp,              \* the TcpStream held in `ilp` (its identity)
  ilpAlive,         \* whether that connection is still usable
  lag_elapsed,      \* last_lag_update.elapsed(), seconds, saturating at LagPeriod
  fetchWait,        \* seconds spent so far inside fetch_watermarks
  gauge,            \* value of the consumer_lag gauge
  dropped_total,    \* value of the dropped_total counter
  \* ---- history of the current session (observation only) ----
  trace,            \* sink operations made for the current message
  sinkWrites,       \* offsets whose line was written successfully, in order
  commitCalls,      \* offsets passed to commit_message, in order
  unhandled,        \* offsets abandoned by decode failure or failed retry
  malformedSeen,    \* number of malformed messages consumed
  sinceQuery,       \* seconds since the last watermark query (or the start), saturating
  sinceGauge,       \* seconds since the last gauge update (or the start), saturating
  queryGap,         \* shortest sinceQuery at which a watermark query was made so far
  gaugeGap,         \* shortest sinceGauge at which the gauge was set so far
  queriesMade,      \* watermark queries made, counted up to SampleCap
  gaugeSets,        \* gauge updates made, counted up to SampleCap
  lagSample,        \* <<high, pos>> used for the last gauge update
  \* ---- history across sessions ----
  owed,             \* offsets abandoned in an earlier session and not delivered since
  restarts,
  \* ---- consumer: decoding and encoding of one message (main.rs:104-110) ----
  epc,              \* "idle", "decoded" (t built) or "encoded" (line built)
  norm,             \* the message in hand: ts_ms numeral of its JSON, msg_id header
  t,                \* the NormTrade that serde_json built from it
  msg_id,           \* header_str(&msg, "msg_id").unwrap_or("")
  line,             \* the value of to_ilp_line(&t, msg_id)
  \* ---- fetcher (fetcher/src/main.rs) ----
  fpc,              \* position of the fetcher's main()
  feed,             \* what the last read of the WebSocket stream returned
  frame,            \* the frame in hand
  frames,           \* frames read so far, in arrival order
  sent              \* publish attempts so far, in order

consumerVars == <<log, committed, commitReq, stored, sinkUp, pc, position, msg,
          payload, ilp, ilpAlive, lag_elapsed, fetchWait, gauge,
          dropped_total, trace, sinkWrites, commitCalls, unhandled,
          malformedSeen, sinceQuery, sinceGauge, queryGap, gaugeGap,
          queriesMade, gaugeSets, lagSample, owed, restarts>>
encoderVars == <<epc, norm, t, msg_id, line>>
fetcherVars == <<fpc, feed, frame, frames, sent>>
stageVars == <<encoderVars, fetcherVars>>
vars == <<consumerVars, encoderVars, fetcherVars>>

brokerVars == <<log, committed>>
timeVars == <<lag_elapsed, sinceQuery, sinceGauge>>
sampleVars == <<queryGap, gaugeGap, queriesMade, gaugeSets, lagSample>>
msgHist == <<trace, sinkWrites, commitCalls, unhandled, malformedSeen>>
histVars == <<msgHist, sampleVars, owed, restarts>>

Min(a, b) == IF a < b THEN a ELSE b
Range(s) == {s[i] : i \in 1..Len(s)}
Last(s) == s[Len(s)]
KindAt(o) == log[o + 1]

\* Variant: the read position is taken to be the offset itself.
Lag_OffByOne(high, pos) == IF high - pos > 0 THEN high - pos ELSE 0

\* (high - (pos + 1)).max(0), main.rs:143
Lag(high, pos) == IF high - (pos + 1) > 0 THEN high - (pos + 1) ELSE 0

\* auto.offset.reset = latest: with no committed offset the group starts at
\* the end of the partition, otherwise at the committed offset.
ResumeOffset == IF committed = NoOffset THEN Len(log) ELSE committed

Init ==
  /\ log = << >>
  /\ committed = NoOffset
  /\ commitReq = NoOffset
  /\ stored = NoOffset
  /\ sinkUp = TRUE
  /\ pc = "start"
  /\ position = 0
  /\ msg = NoOffset
  /\ payload = NoOffset
  /\ ilp = 0
  /\ ilpAlive = FALSE
  /\ lag_elapsed = 0
  /\ fetchWait = 0
  /\ gauge = NoGauge
  /\ dropped_total = 0
  /\ trace = << >>
  /\ sinkWrites = << >>
  /\ commitCalls = << >>
  /\ unhandled = {}
  /\ malformedSeen = 0
  /\ sinceQuery = 0
  /\ sinceGauge = 0
  /\ queryGap = LagPeriod
  /\ gaugeGap = LagPeriod
  /\ queriesMade = 0
  /\ gaugeSets = 0
  /\ lagSample = << >>
  /\ owed = {}
  /\ restarts = 0
  /\ epc = "idle"
  /\ norm = "none"
  /\ t = "none"
  /\ msg_id = << >>
  /\ line = "none"
  /\ fpc = "connect"
  /\ feed = "none"
  /\ frame = "none"
  /\ frames = << >>
  /\ sent = << >>

\* ---------------------------------------------------------------------
\* The consumer process
\* ---------------------------------------------------------------------

WriteEv(ok) == [op |-> "write", ok |-> ok, bytes |-> payload]
ConnectEv(ok) == [op |-> "connect", ok |-> ok, bytes |-> NoOffset]

NextConn == (ilp + 1) % NumConnIds

\* main.rs:67-81 with the sink reachable: subscribe, connect, take the
\* first Instant, open the stream.
StartOk ==
  /\ pc = "start"
  /\ sinkUp
  /\ position' = ResumeOffset
  /\ ilp' = NextConn
  /\ ilpAlive' = TRUE
  /\ lag_elapsed' = 0
  /\ sinceQuery' = 0
  /\ sinceGauge' = 0
  /\ pc' = "poll"
  /\ UNCHANGED <<brokerVars, commitReq, stored, sinkUp, msg, payload,
                 fetchWait, gauge, dropped_total, msgHist, sampleVars, owed,
                 restarts>>
  /\ UNCHANGED stageVars

\* main.rs:78: `ilp_connect(..).await?` fails and main returns the error.
StartFail ==
  /\ pc = "start"
  /\ ~sinkUp
  /\ pc' = "exited"
  /\ UNCHANGED <<brokerVars, commitReq, stored, sinkUp, position, msg,
                 payload, ilp, ilpAlive, timeVars, fetchWait, gauge,
                 dropped_total, histVars>>
  /\ UNCHANGED stageVars

\* main.rs:82-84: stream.next() yields Ok(m); the client stores m's offset + 1.
Poll ==
  /\ pc = "poll"
  /\ position < Len(log)
  /\ msg' = position
  /\ position' = position + 1
  /\ stored' = position + 1
  /\ trace' = << >>
  /\ owed' = owed \ {position}
  /\ pc' = "process"
  /\ UNCHANGED <<brokerVars, commitReq, sinkUp, payload, ilp, ilpAlive,
                 timeVars, fetchWait, gauge, dropped_total, sinkWrites,
                 commitCalls, unhandled, malformedSeen, sampleVars, restarts>>
  /\ UNCHANGED stageVars

\* main.rs:82-85: stream.next() yields Err(e).
PollErr ==
  /\ pc = "poll"
  /\ pc' = "poll_error"
  /\ UNCHANGED <<brokerVars, commitReq, stored, sinkUp, position, msg,
                 payload, ilp, ilpAlive, timeVars, fetchWait, gauge,
                 dropped_total, histVars>>
  /\ UNCHANGED stageVars

\* main.rs:85: tracing::error!("poll error"); continue.
LogPollError ==
  /\ pc = "poll_error"
  /\ pc' = "poll"
  /\ UNCHANGED <<brokerVars, commitReq, stored, sinkUp, position, msg,
                 payload, ilp, ilpAlive, timeVars, fetchWait, gauge,
                 dropped_total, histVars>>
  /\ UNCHANGED stageVars

\* main.rs:88-91: payload_view::<str>() is None or Some(Err): warn and continue.
ProcessNonText ==
  /\ pc = "process"
  /\ KindAt(msg) = "nontext"
  /\ msg' = NoOffset
  /\ pc' = "poll"
  /\ UNCHANGED <<brokerVars, commitReq, stored, sinkUp, position, payload,
                 ilp, ilpAlive, timeVars, fetchWait, gauge, dropped_total,
                 histVars>>
  /\ UNCHANGED stageVars

\* Variant: the undecodable message is committed so that it is skipped.
ProcessMalformed_Commit ==
  /\ pc = "process"
  /\ KindAt(msg) = "malformed"
  /\ malformedSeen' = malformedSeen + 1
  /\ unhandled' = unhandled \cup {msg}
  /\ commitReq' = msg + 1
  /\ commitCalls' = Append(commitCalls, msg)
  /\ msg' = NoOffset
  /\ pc' = "poll"
  /\ UNCHANGED <<brokerVars, stored, sinkUp, position, payload, ilp,
                 ilpAlive, timeVars, fetchWait, gauge, dropped_total, trace,
                 sinkWrites, sampleVars, owed, restarts>>
  /\ UNCHANGED stageVars

\* main.rs:93-107: text payload that serde_json rejects: error and continue.
\* No counter other than consumed_total is touched on this path.
ProcessMalformed ==
  /\ pc = "process"
  /\ KindAt(msg) = "malformed"
  /\ malformedSeen' = malformedSeen + 1
  /\ unhandled' = unhandled \cup {msg}
  /\ msg' = NoOffset
  /\ pc' = "poll"
  /\ UNCHANGED <<brokerVars, commitReq, stored, sinkUp, position, payload,
                 ilp, ilpAlive, timeVars, fetchWait, gauge, dropped_total,
                 trace, sinkWrites, commitCalls, sampleVars, owed, restarts>>
  /\ UNCHANGED stageVars

\* main.rs:93-111: text payload that decodes: encode the line.
ProcessTick ==
  /\ pc = "process"
  /\ KindAt(msg) = "tick"
  /\ payload' = msg
  /\ pc' = "write"
  /\ UNCHANGED <<brokerVars, commitReq, stored, sinkUp, position, msg, ilp,
                 ilpAlive, timeVars, fetchWait, gauge, dropped_total,
                 histVars>>
  /\ UNCHANGED stageVars

\* Variant: the retry is not guarded by the failure of the first write.
WriteOk_RetryAnyway ==
  /\ pc = "write"
  /\ ilpAlive
  /\ trace' = Append(trace, WriteEv(TRUE))
  /\ sinkWrites' = Append(sinkWrites, payload)
  /\ pc' = "retry"
  /\ UNCHANGED <<brokerVars, commitReq, stored, sinkUp, position, msg,
                 payload, ilp, ilpAlive, timeVars, fetchWait, gauge,
                 dropped_total, commitCalls, unhandled, malformedSeen,
                 sampleVars, owed, restarts>>
  /\ UNCHANGED stageVars

\* main.rs:113-117, write_all returns Ok: fall through to the commit.
WriteOk ==
  /\ pc = "write"
  /\ ilpAlive
  /\ trace' = Append(trace, WriteEv(TRUE))
  /\ sinkWrites' = Append(sinkWrites, payload)
  /\ pc' = "commit"
  /\ UNCHANGED <<brokerVars, commitReq, stored, sinkUp, position, msg,
                 payload, ilp, ilpAlive, timeVars, fetchWait, gauge,
                 dropped_total, commitCalls, unhandled, malformedSeen,
                 sampleVars, owed, restarts>>
  /\ UNCHANGED stageVars

\* main.rs:113-120, write_all returns Err: warn, go on to reconnect.
WriteFail ==
  /\ pc = "write"
  /\ ~ilpAlive
  /\ trace' = Append(trace, WriteEv(FALSE))
  /\ pc' = "reconnect"
  /\ UNCHANGED <<brokerVars, commitReq, stored, sinkUp, position, msg,
                 payload, ilp, ilpAlive, timeVars, fetchWait, gauge,
                 dropped_total, sinkWrites, commitCalls, unhandled,
                 malformedSeen, sampleVars, owed, restarts>>
  /\ UNCHANGED stageVars

\* Variant: after a reconnect the consumer seeks back to the committed offset.
ReconnectOk_Rewind ==
  /\ pc = "reconnect"
  /\ sinkUp
  /\ trace' = Append(trace, ConnectEv(TRUE))
  /\ ilp' = NextConn
  /\ ilpAlive' = TRUE
  /\ position' = IF committed = NoOffset THEN 0 ELSE committed
  /\ pc' = "retry"
  /\ UNCHANGED <<brokerVars, commitReq, stored, sinkUp, msg, payload,
                 timeVars, fetchWait, gauge, dropped_total, sinkWrites,
                 commitCalls, unhandled, malformedSeen, sampleVars, owed,
                 restarts>>
  /\ UNCHANGED stageVars

\* main.rs:121-122, ilp_connect returns Ok(s): `ilp = s`.
ReconnectOk ==
  /\ pc = "reconnect"
  /\ sinkUp
  /\ trace' = Append(trace, ConnectEv(TRUE))
  /\ ilp' = NextConn
  /\ ilpAlive' = TRUE
  /\ pc' = "retry"
  /\ UNCHANGED <<brokerVars, commitReq, stored, sinkUp, position, msg,
                 payload, timeVars, fetchWait, gauge, dropped_total,
                 sinkWrites, commitCalls, unhandled, malformedSeen,
                 sampleVars, owed, restarts>>
  /\ UNCHANGED stageVars

\* Variant: the reconnect error is propagated with `?` and main returns.
ReconnectFail_Exit ==
  /\ pc = "reconnect"
  /\ ~sinkUp
  /\ trace' = Append(trace, ConnectEv(FALSE))
  /\ unhandled' = unhandled \cup {msg}
  /\ msg' = NoOffset
  /\ payload' = NoOffset
  /\ pc' = "exited"
  /\ UNCHANGED <<brokerVars, commitReq, stored, sinkUp, position, ilp,
                 ilpAlive, timeVars, fetchWait, gauge, dropped_total,
                 sinkWrites, commitCalls, malformedSeen, sampleVars, owed,
                 restarts>>
  /\ UNCHANGED stageVars

\* Variant: the failed reconnect still replaces the handle (by a stream that
\* was never connected).
ReconnectFail_Replace ==
  /\ pc = "reconnect"
  /\ ~sinkUp
  /\ trace' = Append(trace, ConnectEv(FALSE))
  /\ unhandled' = unhandled \cup {msg}
  /\ ilp' = NextConn
  /\ ilpAlive' = FALSE
  /\ msg' = NoOffset
  /\ payload' = NoOffset
  /\ pc' = "poll"
  /\ UNCHANGED <<brokerVars, commitReq, stored, sinkUp, position, timeVars,
                 fetchWait, gauge, dropped_total, sinkWrites, commitCalls,
                 malformedSeen, sampleVars, owed, restarts>>
  /\ UNCHANGED stageVars

\* main.rs:123, ilp_connect returns Err: error and continue; the assignment
\* to `ilp` never happens.
ReconnectFail ==
  /\ pc = "reconnect"
  /\ ~sinkUp
  /\ trace' = Append(trace, ConnectEv(FALSE))
  /\ unhandled' = unhandled \cup {msg}
  /\ msg' = NoOffset
  /\ payload' = NoOffset
  /\ pc' = "poll"
  /\ UNCHANGED <<brokerVars, commitReq, stored, sinkUp, position, ilp,
                 ilpAlive, timeVars, fetchWait, gauge, dropped_total,
                 sinkWrites, commitCalls, malformedSeen, sampleVars, owed,
                 restarts>>
  /\ UNCHANGED stageVars

\* main.rs:125 with Ok, 129: the retried write succeeds, fall through.
RetryOk ==
  /\ pc = "retry"
  /\ ilpAlive
  /\ trace' = Append(trace, WriteEv(TRUE))
  /\ sinkWrites' = Append(sinkWrites, payload)
  /\ pc' = "commit"
  /\ UNCHANGED <<brokerVars, commitReq, stored, sinkUp, position, msg,
                 payload, ilp, ilpAlive, timeVars, fetchWait, gauge,
                 dropped_total, commitCalls, unhandled, malformedSeen,
                 sampleVars, owed, restarts>>
  /\ UNCHANGED stageVars

\* Variant: the failed retry goes back to reconnecting instead of giving up.
RetryFail_Loop ==
  /\ pc = "retry"
  /\ ~ilpAlive
  /\ trace' = Append(trace, WriteEv(FALSE))
  /\ pc' = "reconnect"
  /\ UNCHANGED <<brokerVars, commitReq, stored, sinkUp, position, msg,
                 payload, ilp, ilpAlive, timeVars, fetchWait, gauge,
                 dropped_total, sinkWrites, commitCalls, unhandled,
                 malformedSeen, sampleVars, owed, restarts>>
  /\ UNCHANGED stageVars

\* Variant: the `continue` after the failed retry is missing.
RetryFail_NoContinue ==
  /\ pc = "retry"
  /\ ~ilpAlive
  /\ trace' = Append(trace, WriteEv(FALSE))
  /\ unhandled' = unhandled \cup {msg}
  /\ pc' = "commit"
  /\ UNCHANGED <<brokerVars, commitReq, stored, sinkUp, position, msg,
                 payload, ilp, ilpAlive, timeVars, fetchWait, gauge,
                 dropped_total, sinkWrites, commitCalls, malformedSeen,
                 sampleVars, owed, restarts>>
  /\ UNCHANGED stageVars

\* main.rs:125-128: the retried write fails: error and continue.
RetryFail ==
  /\ pc = "retry"
  /\ ~ilpAlive
  /\ trace' = Append(trace, WriteEv(FALSE))
  /\ unhandled' = unhandled \cup {msg}
  /\ msg' = NoOffset
  /\ payload' = NoOffset
  /\ pc' = "poll"
  /\ UNCHANGED <<brokerVars, commitReq, stored, sinkUp, position, ilp,
                 ilpAlive, timeVars, fetchWait, gauge, dropped_total,
                 sinkWrites, commitCalls, malformedSeen, sampleVars, owed,
                 restarts>>
  /\ UNCHANGED stageVars

\* Variant: the gate compares against the watermark timeout.
LagDue_Short == lag_elapsed >= WatermarkTimeout

\* main.rs:138: last_lag_update.elapsed() >= Duration::from_secs(5)
LagDue == lag_elapsed >= LagPeriod

\* main.rs:131-138: commit_message(&msg, Async) queues offset + 1, then the
\* gate of the lag sample is evaluated; when it is open, fetch_watermarks is
\* called (a blocking call), otherwise the iteration ends.
CommitAndGate ==
  /\ pc = "commit"
  /\ commitReq' = msg + 1
  /\ commitCalls' = Append(commitCalls, msg)
  /\ IF LagDue
       THEN /\ pc' = "fetch_watermarks"
            /\ fetchWait' = 0
            /\ queryGap' = Min(queryGap, sinceQuery)
            /\ sinceQuery' = 0
            /\ queriesMade' = Min(queriesMade + 1, SampleCap)
            /\ UNCHANGED <<msg, payload>>
       ELSE /\ pc' = "poll"
            /\ msg' = NoOffset
            /\ payload' = NoOffset
            /\ UNCHANGED <<fetchWait, queryGap, sinceQuery, queriesMade>>
  /\ UNCHANGED <<brokerVars, stored, sinkUp, position, ilp, ilpAlive,
                 lag_elapsed, sinceGauge, gauge, dropped_total, trace,
                 sinkWrites, unhandled, malformedSeen, gaugeGap, gaugeSets,
                 lagSample, owed, restarts>>
  /\ UNCHANGED stageVars

\* main.rs:139-146, fetch_watermarks returns Ok((_, high)) within its timeout:
\* set the gauge, restart the window.
FetchOk ==
  /\ pc = "fetch_watermarks"
  /\ fetchWait < WatermarkTimeout
  /\ LET high == Len(log)
         pos == msg
     IN /\ gauge' = Lag(high, pos)
        /\ lagSample' = <<high, pos>>
  /\ gaugeGap' = Min(gaugeGap, sinceGauge)
  /\ sinceGauge' = 0
  /\ gaugeSets' = Min(gaugeSets + 1, SampleCap)
  /\ lag_elapsed' = 0
  /\ msg' = NoOffset
  /\ payload' = NoOffset
  /\ pc' = "poll"
  /\ UNCHANGED <<brokerVars, commitReq, stored, sinkUp, position, ilp,
                 ilpAlive, sinceQuery, fetchWait, dropped_total, msgHist,
                 queryGap, queriesMade, owed, restarts>>
  /\ UNCHANGED stageVars

\* Variant: the window is only restarted inside the Ok branch.
FetchFail_KeepWindow ==
  /\ pc = "fetch_watermarks"
  /\ msg' = NoOffset
  /\ payload' = NoOffset
  /\ pc' = "poll"
  /\ UNCHANGED <<brokerVars, commitReq, stored, sinkUp, position, ilp,
                 ilpAlive, timeVars, fetchWait, gauge, dropped_total,
                 histVars>>
  /\ UNCHANGED stageVars

\* main.rs:139-146, fetch_watermarks returns Err (broker error, or the 2 s
\* timeout): the gauge is left alone, the window is restarted.
FetchFail ==
  /\ pc = "fetch_watermarks"
  /\ lag_elapsed' = 0
  /\ msg' = NoOffset
  /\ payload' = NoOffset
  /\ pc' = "poll"
  /\ UNCHANGED <<brokerVars, commitReq, stored, sinkUp, position, ilp,
                 ilpAlive, sinceQuery, sinceGauge, fetchWait, gauge,
                 dropped_total, histVars>>
  /\ UNCHANGED stageVars

\* The process dies (at any point) and is started again: everything main()
\* holds is lost, the metrics registry starts empty, queued commit requests
\* that the broker has not applied are gone.
Crash ==
  /\ restarts < MaxRestarts
  /\ pc # "start"
  /\ restarts' = restarts + 1
  /\ owed' = owed \cup unhandled
  /\ pc' = "start"
  /\ commitReq' = NoOffset
  /\ stored' = NoOffset
  /\ position' = 0
  /\ msg' = NoOffset
  /\ payload' = NoOffset
  /\ ilpAlive' = FALSE
  /\ lag_elapsed' = 0
  /\ sinceQuery' = 0
  /\ sinceGauge' = 0
  /\ fetchWait' = 0
  /\ gauge' = NoGauge
  /\ dropped_total' = 0
  /\ trace' = << >>
  /\ sinkWrites' = << >>
  /\ commitCalls' = << >>
  /\ unhandled' = {}
  /\ malformedSeen' = 0
  /\ queryGap' = LagPeriod
  /\ gaugeGap' = LagPeriod
  /\ queriesMade' = 0
  /\ gaugeSets' = 0
  /\ lagSample' = << >>
  /\ UNCHANGED <<brokerVars, sinkUp, ilp>>
  /\ UNCHANGED stageVars

\* ---------------------------------------------------------------------
\* The environment
\* ---------------------------------------------------------------------

\* The Normalization stage publishes one more message to the partition.
Produce ==
  /\ Len(log) < MaxLog
  /\ \E k \in Kinds : log' = Append(log, k)
  /\ UNCHANGED <<committed, commitReq, stored, sinkUp, pc, position, msg,
                 payload, ilp, ilpAlive, timeVars, fetchWait, gauge,
                 dropped_total, histVars>>
  /\ UNCHANGED stageVars

\* The sink goes away: every open connection to it is broken.
SinkDown ==
  /\ sinkUp
  /\ sinkUp' = FALSE
  /\ ilpAlive' = FALSE
  /\ UNCHANGED <<brokerVars, commitReq, stored, pc, position, msg, payload,
                 ilp, timeVars, fetchWait, gauge, dropped_total, histVars>>
  /\ UNCHANGED stageVars

\* The sink accepts connections again.
SinkUp ==
  /\ ~sinkUp
  /\ sinkUp' = TRUE
  /\ UNCHANGED <<brokerVars, commitReq, stored, pc, position, msg, payload,
                 ilp, ilpAlive, timeVars, fetchWait, gauge, dropped_total,
                 histVars>>
  /\ UNCHANGED stageVars

\* The broker applies the queued commit request.
BrokerCommit ==
  /\ commitReq # NoOffset
  /\ committed' = commitReq
  /\ commitReq' = NoOffset
  /\ UNCHANGED <<log, stored, sinkUp, pc, position, msg, payload, ilp,
                 ilpAlive, timeVars, fetchWait, gauge, dropped_total,
                 histVars>>
  /\ UNCHANGED stageVars

\* main.rs:67-75 leaves enable.auto.commit and enable.auto.offset.store at
\* the client's defaults (on): its background timer queues a commit of the
\* offset store.
AutoCommit ==
  /\ pc \notin {"start", "exited"}
  /\ stored # NoOffset
  /\ stored # commitReq
  /\ stored # committed
  /\ commitReq' = stored
  /\ UNCHANGED <<brokerVars, stored, sinkUp, pc, position, msg, payload,
                 ilp, ilpAlive, timeVars, fetchWait, gauge, dropped_total,
                 histVars>>
  /\ UNCHANGED stageVars

\* One second passes.  The process is only ever waiting at a suspension
\* point; inside fetch_watermarks the wait is bounded by the timeout.
Tick ==
  /\ pc \in {"poll", "write", "reconnect", "retry", "fetch_watermarks"}
  /\ pc = "fetch_watermarks" => fetchWait < WatermarkTimeout
  /\ lag_elapsed' = Min(lag_elapsed + 1, LagPeriod)
  /\ sinceQuery' = Min(sinceQuery + 1, LagPeriod)
  /\ sinceGauge' = Min(sinceGauge + 1, LagPeriod)
  /\ fetchWait' = IF pc = "fetch_watermarks" THEN fetchWait + 1 ELSE fetchWait
  /\ UNCHANGED <<brokerVars, commitReq, stored, sinkUp, pc, position, msg,
                 payload, ilp, ilpAlive, gauge, dropped_total, histVars>>
  /\ UNCHANGED stageVars

Next ==
  \/ StartOk \/ StartFail
  \/ Poll \/ PollErr \/ LogPollError
  \/ ProcessNonText \/ ProcessMalformed \/ ProcessTick
  \/ WriteOk \/ WriteFail
  \/ ReconnectOk \/ ReconnectFail
  \/ RetryOk \/ RetryFail
  \/ CommitAndGate
  \/ FetchOk \/ FetchFail
  \/ Crash
  \/ Produce \/ SinkDown \/ SinkUp \/ BrokerCommit \/ AutoCommit \/ Tick

Spec == Init /\ [][Next]_vars

\* The behaviours in which the client's auto-commit timer never fires: the
\* only commits are the ones main() asks for.
NextExplicit ==
  \/ StartOk \/ StartFail
  \/ Poll \/ PollErr \/ LogPollError
  \/ ProcessNonText \/ ProcessMalformed \/ ProcessTick
  \/ WriteOk \/ WriteFail
  \/ ReconnectOk \/ ReconnectFail
  \/ RetryOk \/ RetryFail
  \/ CommitAndGate
  \/ FetchOk \/ FetchFail
  \/ Crash
  \/ Produce \/ SinkDown \/ SinkUp \/ BrokerCommit \/ Tick

ExplicitCommitSpec == Init /\ [][NextExplicit]_vars

TypeOK ==
  /\ log \in Seq(Kinds) /\ Len(log) <= MaxLog
  /\ committed \in {NoOffset} \cup (0..MaxLog)
  /\ commitReq \in {NoOffset} \cup (0..MaxLog)
  /\ stored \in {NoOffset} \cup (0..MaxLog)
  /\ sinkUp \in BOOLEAN /\ ilpAlive \in BOOLEAN
  /\ pc \in {"start", "exited", "poll", "poll_error", "process",
             "write", "reconnect", "retry", "commit", "fetch_watermarks"}
  /\ position \in 0..MaxLog
  /\ msg \in {NoOffset} \cup (0..(MaxLog - 1))
  /\ ilp \in 0..(NumConnIds - 1)
  /\ lag_elapsed \in 0..LagPeriod
  /\ fetchWait \in 0..WatermarkTimeout
  /\ dropped_total \in Nat

\* ---------------------------------------------------------------------
\* Decoding and encoding of one message (main.rs:104-110, to_ilp_line)
\* ---------------------------------------------------------------------
\* A numeral is a sign and its decimal digits, most significant first, as
\* they stand in JSON text or in the sink line.  A machine integer is its
\* two's-complement bytes, least significant first.

Numeral(neg, digits) == [neg |-> neg, digits |-> digits]

\* b * m + c on the bytes of b; the carry out of the top byte is lost, as
\* in arithmetic of that width.
RECURSIVE MulAdd(_, _, _)
MulAdd(b, m, c) ==
  IF b = << >>
    THEN << >>
    ELSE LET v == Head(b) * m + c
         IN <<v % 256>> \o MulAdd(Tail(b), m, v \div 256)

IsNeg(b) == b[Len(b)] >= 128
Negate(b) == MulAdd([i \in 1..Len(b) |-> 255 - b[i]], 1, 1)

RECURSIVE Horner(_, _)
Horner(digits, acc) ==
  IF digits = << >>
    THEN acc
    ELSE Horner(Tail(digits), MulAdd(acc, 10, Head(digits)))

\* serde_json reading a JSON integer that fits into an i64 field
\* (main.rs:26, 104): the magnitude is accumulated digit by digit and
\* negated for a leading minus sign.
ParseI64(n) ==
  LET mag == Horner(n.digits, [i \in 1..I64Bytes |-> 0])
  IN IF n.neg THEN Negate(mag) ELSE mag

\* `x as iN` from a narrower signed integer: sign extension to n bytes.
SignExtend(b, n) ==
  b \o [i \in 1..(n - Len(b)) |-> IF IsNeg(b) THEN 255 ELSE 0]

\* Division of the unsigned bytes b[1..i] (with r carried in from above) by 10.
RECURSIVE Div10(_, _, _)
Div10(b, i, r) ==
  IF i = 0
    THEN [q |-> << >>, r |-> r]
    ELSE LET v == r * 256 + b[i]
             rest == Div10(b, i - 1, v % 10)
         IN [q |-> Append(rest.q, v \div 10), r |-> rest.r]

RECURSIVE Dec(_)
Dec(b) ==
  LET d == Div10(b, Len(b), 0)
  IN IF \A i \in 1..Len(b) : d.q[i] = 0
       THEN <<d.r>>
       ELSE Append(Dec(d.q), d.r)

\* `{}` of a signed integer: a minus sign for negative values, then the
\* decimal digits of the magnitude.
Display(b) ==
  IF IsNeg(b) THEN Numeral(TRUE, Dec(Negate(b))) ELSE Numeral(FALSE, Dec(b))

\* msg_id.replace('\"', "\\\""), main.rs:50
RECURSIVE Escape(_)
Escape(id) ==
  IF id = << >>
    THEN << >>
    ELSE (IF Head(id) = "\"" THEN <<"\\", "\"">> ELSE <<Head(id)>>)
           \o Escape(Tail(id))

\* Variant: the multiplication is made on the i64 itself.
to_ilp_line_i64(tt, id) ==
  [measurement |-> "trades",
   msg_id |-> Escape(id),
   ts_ms |-> Display(tt.ts_ms),
   ts |-> Display(MulAdd(tt.ts_ms, NsPerMs, 0))]

\* main.rs:42-54.  Of the line's fields the model keeps the measurement,
\* msg_id, ts_ms and the trailing timestamp.
to_ilp_line(tt, id) ==
  [measurement |-> "trades",
   msg_id |-> Escape(id),
   ts_ms |-> Display(tt.ts_ms),
   ts |-> Display(MulAdd(SignExtend(tt.ts_ms, I128Bytes), NsPerMs, 0))]

\* ---- the messages tried ----

MaxI64 == Numeral(FALSE, <<9,2,2,3,3,7,2,0,3,6,8,5,4,7,7,5,8,0,7>>)
MinI64 == Numeral(TRUE, <<9,2,2,3,3,7,2,0,3,6,8,5,4,7,7,5,8,0,8>>)

\* The largest ts_ms whose nanoseconds still fit an i64, and its successor.
LastFitting == <<9,2,2,3,3,7,2,0,3,6,8,5,4>>
FirstOverflowing == <<9,2,2,3,3,7,2,0,3,6,8,5,5>>

SmallDigits ==
  {d \in UNION {[1..n -> 0..9] : n \in 1..MaxDigits} : Len(d) = 1 \/ d[1] # 0}

TsInputs ==
  {Numeral(FALSE, d) : d \in SmallDigits}
    \cup {Numeral(TRUE, d) : d \in SmallDigits \ {<<0>>}}
    \cup {MaxI64, MinI64}
    \cup {Numeral(s, d) : s \in BOOLEAN,
                          d \in {LastFitting, FirstOverflowing,
                                 <<1,7,0,0,0,0,0,0,0,0,0,0,0>>,
                                 <<4,2,9,4,9,6,7,2,9,6>>}}

IdChars == {"a", "\"", "\\"}
MsgIds == UNION {[1..n -> IdChars] : n \in 0..MaxIdLen}

\* What header_str returns (main.rs:20-23): None, or Some(value).
None == {}
Some(x) == {x}
Headers == {None} \cup {Some(id) : id \in MsgIds}
unwrap_or(o, default) == IF o = None THEN default ELSE CHOOSE x \in o : TRUE

\* main.rs:20-23 on a set of headers, each a key and a value.
header_str(headers, key) ==
  LET hs == {h \in headers : h.key = key}
  IN IF hs = {} THEN None ELSE Some((CHOOSE h \in hs : TRUE).value)

\* main.rs:104-108: serde_json builds the NormTrade, the msg_id header is
\* read, an absent header counts as the empty string.
Decode ==
  /\ epc = "idle"
  /\ \E n \in TsInputs, h \in Headers :
       /\ norm' = [ts_ms |-> n, msg_id |-> h]
       /\ t' = [ts_ms |-> ParseI64(n)]
       /\ msg_id' = unwrap_or(h, << >>)
  /\ line' = "none"
  /\ epc' = "decoded"
  /\ UNCHANGED <<consumerVars, fetcherVars>>

\* main.rs:110: let line = to_ilp_line(&t, msg_id);
Encode ==
  /\ epc = "decoded"
  /\ line' = to_ilp_line(t, msg_id)
  /\ epc' = "encoded"
  /\ UNCHANGED <<norm, t, msg_id, consumerVars, fetcherVars>>

\* main.rs:148: the iteration ends, its locals are dropped.
Drop ==
  /\ epc = "encoded"
  /\ epc' = "idle"
  /\ norm' = "none"
  /\ t' = "none"
  /\ msg_id' = << >>
  /\ line' = "none"
  /\ UNCHANGED <<consumerVars, fetcherVars>>

EncNext == Decode \/ Encode \/ Drop

EncSpec == Init /\ [][EncNext]_vars

\* ---------------------------------------------------------------------
\* The fetcher (fetcher/src/main.rs)
\* ---------------------------------------------------------------------

KAFKA_TOPIC == "btc-usdt-kline"

\* What a WebSocket frame can be to lines 88-90: text that is exactly the
\* JSON of a KlinePayload; text that deserializes into one but holds more
\* (fields the struct does not have, other spacing or field order); any
\* other text; a frame that into_text() refuses.
FrameKinds == {"kline", "kline_extra", "text", "binary"}
IsText(k) == k # "binary"
ParsesAsKline(k) == k \in {"kline", "kline_extra"}

\* serde_json::to_string(&kline_payload), fetcher main.rs:105: the struct's
\* own fields in the struct's order.
Reserialize(k) == "kline"

\* fetcher main.rs:76-85: the WebSocket connection is established.
ConnectOk ==
  /\ fpc = "connect"
  /\ feed' = "open"
  /\ fpc' = "read"
  /\ UNCHANGED <<frame, frames, sent, consumerVars, encoderVars>>

\* fetcher main.rs:77-81: one of the `?` of the connection returns from main.
ConnectFail ==
  /\ fpc = "connect"
  /\ feed' = "connect_error"
  /\ fpc' = "exited"
  /\ UNCHANGED <<frame, frames, sent, consumerVars, encoderVars>>

\* fetcher main.rs:87: try_next() yields Ok(Some(msg)).
ReadFrame ==
  /\ fpc = "read"
  /\ Len(frames) < MaxFrames
  /\ \E k \in FrameKinds :
       /\ frame' = k
       /\ frames' = Append(frames, k)
  /\ feed' = "frame"
  /\ fpc' = "handle"
  /\ UNCHANGED <<sent, consumerVars, encoderVars>>

\* fetcher main.rs:87: try_next() yields Err(e); the `?` returns it from main.
ReadError ==
  /\ fpc = "read"
  /\ feed' = "error"
  /\ fpc' = "exited"
  /\ UNCHANGED <<frame, frames, sent, consumerVars, encoderVars>>

\* fetcher main.rs:87, 126: try_next() yields Ok(None), the stream is over:
\* the loop ends and main returns Ok(()).
ReadEnd ==
  /\ fpc = "read"
  /\ feed' = "closed"
  /\ fpc' = "exited"
  /\ UNCHANGED <<frame, frames, sent, consumerVars, encoderVars>>

\* fetcher main.rs:88: into_text() is Err: nothing is done with the frame.
SkipNonText ==
  /\ fpc = "handle"
  /\ ~IsText(frame)
  /\ frame' = "none"
  /\ fpc' = "read"
  /\ UNCHANGED <<feed, frames, sent, consumerVars, encoderVars>>

\* fetcher main.rs:90, 120-122: the text is not a KlinePayload: eprintln.
ParseFail ==
  /\ fpc = "handle"
  /\ IsText(frame)
  /\ ~ParsesAsKline(frame)
  /\ frame' = "none"
  /\ fpc' = "read"
  /\ UNCHANGED <<feed, frames, sent, consumerVars, encoderVars>>

\* fetcher main.rs:90-113: the text is a KlinePayload: it is serialized
\* again and sent with the symbol as key; the record gets no headers.
Send ==
  /\ fpc = "handle"
  /\ ParsesAsKline(frame)
  /\ sent' = Append(sent, [frame |-> Len(frames),
                           topic |-> KAFKA_TOPIC,
                           payload |-> Reserialize(frame),
                           key |-> "s",
                           headers |-> {},
                           status |-> "pending"])
  /\ fpc' = "await"
  /\ UNCHANGED <<feed, frame, frames, consumerVars, encoderVars>>

\* fetcher main.rs:115-116: the delivery future resolves to Ok.
Delivered ==
  /\ fpc = "await"
  /\ sent' = [sent EXCEPT ![Len(sent)].status = "delivered"]
  /\ frame' = "none"
  /\ fpc' = "read"
  /\ UNCHANGED <<feed, frames, consumerVars, encoderVars>>

\* fetcher main.rs:117: the delivery future resolves to Err: eprintln, and
\* the loop reads the next frame.
DeliveryFailed ==
  /\ fpc = "await"
  /\ sent' = [sent EXCEPT ![Len(sent)].status = "failed"]
  /\ frame' = "none"
  /\ fpc' = "read"
  /\ UNCHANGED <<feed, frames, consumerVars, encoderVars>>

FetchNext ==
  \/ ConnectOk \/ ConnectFail
  \/ ReadFrame \/ ReadError \/ ReadEnd
  \/ SkipNonText \/ ParseFail \/ Send
  \/ Delivered \/ DeliveryFailed

FetchSpec == Init /\ [][FetchNext]_vars

\* ---------------------------------------------------------------------
\* Properties
\* ---------------------------------------------------------------------

IsWrite(e) == e.op = "write"
IsConnect(e) == e.op = "connect"
Count(s, T(_)) == Cardinality({i \in 1..Len(s) : T(s[i])})
OkWrite(e) == e.op = "write" /\ e.ok
StrictlyIncreasing(s) == \A i, j \in 1..Len(s) : i < j => s[i] < s[j]

\* The message whose sink operations `trace` records was given up:
\* the reconnect failed, or the write after the reconnect failed.
Abandoned ==
  /\ trace # << >>
  /\ ~Last(trace).ok
  /\ (IsConnect(Last(trace)) \/ Len(trace) = 3)

\* The first write failed, the reconnect and the retried write succeeded.
FailThenSuccess ==
  /\ Len(trace) = 3
  /\ IsWrite(trace[1]) /\ ~trace[1].ok
  /\ IsConnect(trace[2]) /\ trace[2].ok
  /\ IsWrite(trace[3]) /\ trace[3].ok

\* C1: per message there are at most 2 write attempts and at most 1
\* reconnect attempt; the reconnect only follows a failed first write, the
\* second write only follows a successful reconnect and carries the same
\* bytes; an iteration is only over after a successful write, a failed
\* reconnect or a failed retry (a failed first write is always followed by
\* the reconnect, a successful reconnect by the retry);
\* once the reconnect or the retried write has failed the message is
\* given up: no further sink operation, the loop is back at the poll and
\* the offset is behind the read position (no requeue).
C1_SingleRetry ==
  /\ Count(trace, IsWrite) <= 2
  /\ Count(trace, IsConnect) <= 1
  /\ Len(trace) >= 1 => IsWrite(trace[1])
  /\ Len(trace) >= 2 => ~trace[1].ok /\ IsConnect(trace[2])
  /\ Len(trace) >= 3 => trace[2].ok /\ IsWrite(trace[3])
                        /\ trace[3].bytes = trace[1].bytes
  /\ Len(trace) <= 3
  /\ (msg = NoOffset /\ trace # << >>) => (OkWrite(Last(trace)) \/ Abandoned)
  /\ Abandoned => /\ pc \in {"poll", "poll_error"}
                  /\ msg = NoOffset
                  /\ trace[1].bytes < position
                  /\ trace[1].bytes \in unhandled

C1_Witness ==
  /\ Len(trace) = 3
  /\ ~trace[3].ok
  /\ pc = "poll"

\* C2: a commit call is issued for a message iff its line was written
\* successfully: the commit calls are exactly the successful writes, in the
\* same order, except while the message just written is about to be
\* committed; no message given up (decode failure, failed reconnect or
\* failed retry) is ever passed to commit.
C2_CommitIffWritten ==
  /\ pc # "commit" => commitCalls = sinkWrites
  /\ pc = "commit" => sinkWrites = Append(commitCalls, msg)
  /\ unhandled \cap Range(commitCalls) = {}

C2_Witness ==
  /\ pc = "poll"
  /\ FailThenSuccess
  /\ commitCalls # << >>
  /\ unhandled # {}

\* C4: in a session no message is written successfully more than once; a
\* successful write is the last sink operation made for its message; when
\* the first write failed and the write after the reconnect succeeded, that
\* one successful write is followed by the commit of the message.
C4_OneSuccessfulWrite ==
  /\ \A i, j \in 1..Len(sinkWrites) : i # j => sinkWrites[i] # sinkWrites[j]
  /\ Count(trace, OkWrite) <= 1
  /\ \A i \in 1..Len(trace) : OkWrite(trace[i]) => i = Len(trace)
  /\ (FailThenSuccess /\ pc # "commit") =>
        /\ Last(sinkWrites) = trace[3].bytes
        /\ Last(commitCalls) = trace[3].bytes

C4_Witness ==
  /\ FailThenSuccess
  /\ pc = "poll"
  /\ Len(sinkWrites) = 2

\* C7: one message in flight at a time: the message being processed is the
\* last one the stream delivered, and the lines written successfully in a
\* session appear in strictly increasing offset order.
C7_InOrder ==
  /\ StrictlyIncreasing(sinkWrites)
  /\ msg # NoOffset => position = msg + 1
  /\ (msg # NoOffset) <=> pc \in {"process", "write", "reconnect", "retry",
                                   "commit", "fetch_watermarks"}

C7_Witness ==
  /\ sinkWrites = <<0, 1>>
  /\ Len(trace) = 3
  /\ pc = "commit"

\* C8: a watermark query is made no earlier than LagPeriod seconds after
\* the previous one (after the start of the session for the first one), and
\* the same holds for the updates of the gauge.
C8_LagThrottle ==
  /\ queryGap >= LagPeriod
  /\ gaugeGap >= LagPeriod

C8_Witness ==
  /\ queriesMade = 2
  /\ gaugeSets = 2

\* C10: whenever the gauge has been set, its value is
\* max(0, high - (offset + 1)) for the high-water mark returned and the
\* offset of the message of that iteration; it is not negative and it is 0
\* when that message was the newest of the partition.
C10_LagValue ==
  gauge # NoGauge =>
    LET high == lagSample[1]
        pos == lagSample[2]
    IN /\ gauge = (IF high > pos + 1 THEN high - pos - 1 ELSE 0)
       /\ gauge >= 0
       /\ pos = high - 1 => gauge = 0
       /\ pos \in Range(commitCalls)

C10_Witness ==
  /\ gauge > 0
  /\ lagSample = <<2, 0>>

\* C3: a message given up without a commit (decode failure, or sink write
\* failing after the single retry) is delivered again once the consumer has
\* restarted: every such message of an earlier session that has not been
\* delivered since is at or after the committed offset that the restarting
\* consumer resumes from.
C3_RedeliveredAfterRestart ==
  (pc = "start" /\ committed # NoOffset) => \A o \in owed : committed <= o

\* C6: dropped_total equals the number of malformed messages consumed.
C6_DroppedCounted ==
  dropped_total = malformedSeen

\* C9: an iteration that took a message and ends while at least LagPeriod
\* seconds have elapsed since the last sample has made the watermark query,
\* whatever became of the message.
C9_SampleWhateverOutcome ==
  [][(msg # NoOffset /\ msg' = NoOffset /\ pc' = "poll" /\ LagDue)
        => pc = "fetch_watermarks"]_vars

\* ---------------------------------------------------------------------
\* Progress
\* ---------------------------------------------------------------------

\* The process takes its next step whenever one is possible (every network
\* operation completes or fails), the broker hands over a message that is
\* repeatedly available and applies queued commits.  The sink, the clock
\* and the producer are under no obligation.
Fairness ==
  /\ WF_vars(StartOk) /\ WF_vars(StartFail)
  /\ SF_vars(Poll) /\ WF_vars(LogPollError)
  /\ WF_vars(ProcessNonText) /\ WF_vars(ProcessMalformed)
  /\ WF_vars(ProcessTick)
  /\ WF_vars(WriteOk) /\ WF_vars(WriteFail)
  /\ WF_vars(ReconnectOk) /\ WF_vars(ReconnectFail)
  /\ WF_vars(RetryOk) /\ WF_vars(RetryFail)
  /\ WF_vars(CommitAndGate)
  /\ WF_vars(FetchOk \/ FetchFail)
  /\ WF_vars(BrokerCommit)

\* A whole lag window passes while the process waits (outside
\* fetch_watermarks, whose wait is shorter than that).
Wait ==
  /\ pc \in {"poll", "write", "reconnect", "retry"}
  /\ lag_elapsed' = LagPeriod
  /\ sinceQuery' = LagPeriod
  /\ sinceGauge' = LagPeriod
  /\ UNCHANGED <<brokerVars, commitReq, stored, sinkUp, pc, position, msg,
                 payload, ilp, ilpAlive, fetchWait, gauge, dropped_total,
                 histVars>>
  /\ UNCHANGED stageVars

\* One session of the program, observed with a clock that advances a lag
\* window at a time.
NextLive ==
  \/ StartOk \/ StartFail
  \/ Poll \/ PollErr \/ LogPollError
  \/ ProcessNonText \/ ProcessMalformed \/ ProcessTick
  \/ WriteOk \/ WriteFail
  \/ ReconnectOk \/ ReconnectFail
  \/ RetryOk \/ RetryFail
  \/ CommitAndGate
  \/ FetchOk \/ FetchFail
  \/ Produce \/ SinkDown \/ SinkUp \/ BrokerCommit \/ AutoCommit \/ Wait

LiveSpec == Init /\ [][NextLive]_vars /\ Fairness

Offsets == 0..(MaxLog - 1)

\* Offset o holds a decodable message that was given up because of the sink
\* and the next message, also decodable, is the next one to be delivered.
GaveUpBeforeNext(o) ==
  /\ o \in unhandled
  /\ KindAt(o) = "tick"
  /\ position = o + 1
  /\ o + 1 < Len(log)
  /\ KindAt(o + 1) = "tick"

WriteAttempted(o) ==
  /\ trace # << >>
  /\ IsWrite(trace[1])
  /\ trace[1].bytes = o

\* The sink accepts connections and offset o holds a decodable message that
\* the running stage has yet to take.
SinkBackBefore(o) ==
  /\ sinkUp
  /\ pc \notin {"start", "exited"}
  /\ position <= o
  /\ o < Len(log)
  /\ KindAt(o) = "tick"

Persisted(o) == o \in Range(sinkWrites) /\ o \in Range(commitCalls)

\* C5: the stage does not halt on sink unavailability: after a message is
\* given up because the reconnect or the retried write failed, a write is
\* attempted for the next message; and once the sink accepts connections, a
\* message not yet taken is persisted and committed unless the sink goes
\* away again.
C5_DropAndContinue ==
  /\ \A o \in Offsets :
        GaveUpBeforeNext(o) ~> WriteAttempted(o + 1)
  /\ \A o \in Offsets :
        SinkBackBefore(o) ~> (Persisted(o) \/ ~sinkUp)

C5_Witness ==
  /\ unhandled = {0}
  /\ KindAt(0) = "tick"
  /\ Persisted(1)
  /\ FailThenSuccess

\* ---------------------------------------------------------------------
\* Commit discipline, connection handle, rejected messages, failed query
\* ---------------------------------------------------------------------

\* C13: the consumer position is durably recorded only by an explicit
\* commit of the stage: in the first session, whatever offset the broker
\* holds for the group is one that a commit_message call asked for.
C13_OnlyExplicitCommits ==
  restarts = 0 =>
    (committed = NoOffset \/ (committed - 1) \in Range(commitCalls))

OkConnect(e) == e.op = "connect" /\ e.ok

\* C16: a failed reconnect leaves the handle as it was (still the connection
\* whose write failed) and gives the message up; a successful reconnect
\* replaces the handle by a new connection; the handle changes at no other
\* point of the loop, so the retry and the first writes of later messages
\* use the connection of the last successful reconnect; and the sink
\* operations of one message hold at most one connection replacement.
C16_HandleAcrossMessages ==
  /\ [][(pc = "reconnect" /\ pc' = "poll")
          => /\ ilp' = ilp
             /\ ilpAlive' = ilpAlive
             /\ msg \in unhandled'
             /\ msg' = NoOffset]_vars
  /\ [][(pc = "reconnect" /\ pc' = "retry") => (ilp' # ilp /\ ilpAlive')]_vars
  /\ [][ilp' # ilp => (pc = "start" \/ (pc = "reconnect" /\ pc' = "retry"))]_vars
  /\ [](Count(trace, OkConnect) <= 1)

\* Message 0 was given up; the first write of message 1 failed, its
\* reconnect replaced the handle and the retry on the new connection
\* succeeded.
C16_Witness ==
  /\ msg = 1
  /\ 0 \in unhandled
  /\ KindAt(0) = "tick"
  /\ FailThenSuccess

\* C17: a message rejected before encoding (not text, or text that does not
\* decode) has no effect on the sink or the log: the step that rejects it
\* writes nothing, makes no sink operation, leaves the handle and the sink
\* alone and issues no commit.
C17_RejectedHasNoEffect ==
  [][(pc = "process" /\ pc' = "poll")
        => /\ KindAt(msg) # "tick"
           /\ trace = << >>
           /\ UNCHANGED <<trace, sinkWrites, ilp, ilpAlive, sinkUp,
                          commitCalls, commitReq, committed>>]_vars

\* Offset 0 was written and committed, offset 1 was rejected by the decoder
\* and left no trace.
C17_Witness ==
  /\ pc = "poll"
  /\ msg = NoOffset
  /\ position = 2
  /\ KindAt(0) = "tick"
  /\ KindAt(1) = "malformed"
  /\ 1 \in unhandled
  /\ trace = << >>
  /\ sinkWrites = <<0>>
  /\ commitCalls = <<0>>

IsPrefix(s, u) == Len(s) <= Len(u) /\ \A i \in 1..Len(s) : s[i] = u[i]

\* C18: within a session the commit calls follow the consumption order, one
\* per successfully written message: the offsets passed to commit are
\* strictly increasing and are the written offsets in order; the committed
\* position of the partition never moves backwards.
C18_CommitsMonotone ==
  /\ [](StrictlyIncreasing(commitCalls) /\ IsPrefix(commitCalls, sinkWrites))
  /\ [][committed' >= committed]_vars

C18_Witness ==
  /\ commitCalls = <<0, 1>>
  /\ committed = 2

\* C19: a watermark query that ends without a gauge update (error or
\* timeout) leaves the gauge and its last sample as they were and restarts
\* the window, the loop goes on with the next poll; once a query is over the
\* gate is never open less than LagPeriod seconds after it, failed or not.
C19_FailedQueryKeepsGauge ==
  /\ [][(pc = "fetch_watermarks" /\ pc' # pc
           /\ (sinceGauge' # 0 \/ fetchWait = WatermarkTimeout))
          => \/ pc' = "start"
             \/ /\ pc' = "poll"
                /\ gauge' = gauge
                /\ lagSample' = lagSample
                /\ lag_elapsed' = 0]_vars
  /\ []((pc # "fetch_watermarks" /\ LagDue) => sinceQuery >= LagPeriod)

\* A query succeeded and set the gauge; a whole window later the next query
\* has just failed.
C19_Witness ==
  /\ pc = "poll"
  /\ queriesMade = 2
  /\ gaugeSets = 1
  /\ gauge # NoGauge
  /\ lag_elapsed = 0
  /\ sinceGauge = LagPeriod


\* ---------------------------------------------------------------------
\* The encoded line
\* ---------------------------------------------------------------------

\* ts_ms * 1_000_000 as a mathematical integer, on the decimal numeral.
TimesMillion(n) ==
  IF n.digits = <<0>> THEN n ELSE [n EXCEPT !.digits = @ \o <<0, 0, 0, 0, 0, 0>>]

\* C11: for every ts_ms of the signed 64-bit range the trailing timestamp of
\* the encoded line is ts_ms * 1_000_000 as a mathematical integer (no
\* wrap-around, no truncation) and the ts_ms field of the line is ts_ms
\* unchanged.
C11_TimestampExact ==
  epc = "encoded" =>
    /\ line.ts = TimesMillion(norm.ts_ms)
    /\ line.ts_ms = norm.ts_ms

\* The most negative i64 was encoded: 25 digits of nanoseconds.
C11_Witness ==
  /\ epc = "encoded"
  /\ norm.ts_ms = MinI64
  /\ line.ts.neg
  /\ Len(line.ts.digits) = 25

\* ---------------------------------------------------------------------
\* The ingestion side
\* ---------------------------------------------------------------------

\* The msg_id field of the sink line written for a record whose headers
\* arrive unchanged at the consumer.
LineMsgId(rec) == Escape(unwrap_or(header_str(rec.headers, "msg_id"), << >>))

\* C12: every record published by the ingestion carries a msg_id and a
\* ts_produce_ns header, and the sink lines of two distinct frames never
\* have the same msg_id field.
C12_LineageHeaders ==
  \A i \in 1..Len(sent) :
    /\ header_str(sent[i].headers, "msg_id") # None
    /\ header_str(sent[i].headers, "ts_produce_ns") # None
    /\ \A j \in 1..Len(sent) : i # j => LineMsgId(sent[i]) # LineMsgId(sent[j])

TextFrames == {i \in 1..Len(frames) : IsText(frames[i])}

\* C14: between two frames, every text frame read so far has had exactly
\* one publish attempt, in arrival order, to the one topic, with the frame's
\* own bytes as payload; other frames have had none.
C14_OnePublishPerTextFrame ==
  fpc = "read" =>
    /\ Len(sent) = Cardinality(TextFrames)
    /\ {sent[k].frame : k \in 1..Len(sent)} = TextFrames
    /\ \A k, l \in 1..Len(sent) : k < l => sent[k].frame < sent[l].frame
    /\ \A k \in 1..Len(sent) :
         /\ sent[k].payload = frames[sent[k].frame]
         /\ sent[k].topic = KAFKA_TOPIC

\* C15: a read error or a disconnect of the feed does not make the fetcher
\* leave its main loop.
C15_TransportFailureContinues ==
  feed \in {"error", "closed"} => fpc # "exited"

====
